---- MODULE Spec2Model ----
(***************************************************************************)
(* A model of cabinet_copy.py: the parametric cabinet generator.           *)
(*                                                                         *)
(* Two specifications are given.                                           *)
(*   Spec      models main(): the batch is read, the two colour maps are   *)
(*             built, every row is parsed, turned into a cabinet and added *)
(*             to the parent assembly, and the scene is saved and shown.   *)
(*   SpecUnit  applies the pure functions create_hinges, create_feet and   *)
(*             create_cabinet to arguments drawn from bounded sets.        *)
(*                                                                         *)
(* Python floats are modelled as exact rationals <<n, d>> (d > 0, lowest   *)
(* terms); CSV cells are sequences of one-character strings, parsed the    *)
(* way int() and float() parse them.                                       *)
(***************************************************************************)
EXTENDS Integers, Sequences, FiniteSets, TLC

(***************************************************************************)
(* Exact arithmetic standing for Python's float arithmetic.                *)
(***************************************************************************)
Abs(a) == IF a < 0 THEN -a ELSE a

RECURSIVE GCD(_, _)
GCD(a, b) == IF b = 0 THEN a ELSE GCD(b, a % b)

Rat(n, d) ==
    LET s == IF d < 0 THEN -1 ELSE 1
        g == GCD(Abs(n), Abs(d))
    IN  <<(s * n) \div g, (s * d) \div g>>

Q(n) == <<n, 1>>

Add(a, b) == Rat(a[1] * b[2] + b[1] * a[2], a[2] * b[2])

Neg(a) == <<-a[1], a[2]>>

Sub(a, b) == Add(a, Neg(b))

Mul(a, b) == Rat(a[1] * b[1], a[2] * b[2])

\* a / b, b # 0
Div(a, b) == Rat(a[1] * b[2], a[2] * b[1])

Half(a) == Div(a, Q(2))

Leq(a, b) == a[1] * b[2] <= b[1] * a[2]

Lt(a, b) == a[1] * b[2] < b[1] * a[2]

IsZero(a) == a[1] = 0

\* floor(a / b) for b > 0: Python's a // b
FloorDiv(a, b) == (a[1] * b[2]) \div (a[2] * b[1])

\* (x, y, z) + (dx, dy, dz)
VAdd(p, v) == <<Add(p[1], v[1]), Add(p[2], v[2]), Add(p[3], v[3])>>

(***************************************************************************)
(* CSV cells and their parsing (int(), float(), str.strip()).              *)
(***************************************************************************)
\* data.get(column) on a file that lacks the column
None == <<"None">>

Digits == <<"0", "1", "2", "3", "4", "5", "6", "7", "8", "9">>

IsDigit(c) == \E k \in 1..10 : Digits[k] = c

DigitVal(c) == (CHOOSE k \in 1..10 : Digits[k] = c) - 1

RECURSIVE lstrip(_)
lstrip(s) == IF s # <<>> /\ Head(s) = " " THEN lstrip(Tail(s)) ELSE s

RECURSIVE rstrip(_)
rstrip(s) ==
    IF s # <<>> /\ s[Len(s)] = " " THEN rstrip(SubSeq(s, 1, Len(s) - 1)) ELSE s

strip(s) == rstrip(lstrip(s))

AllDigits(s) == \A k \in 1..Len(s) : IsDigit(s[k])

RECURSIVE DecVal(_)
DecVal(s) ==
    IF s = <<>> THEN 0 ELSE 10 * DecVal(SubSeq(s, 1, Len(s) - 1)) + DigitVal(s[Len(s)])

RECURSIVE Pow10(_)
Pow10(k) == IF k = 0 THEN 1 ELSE 10 * Pow10(k - 1)

Unsigned(s) == IF s # <<>> /\ Head(s) \in {"-", "+"} THEN Tail(s) ELSE s

Sign(s) == IF s # <<>> /\ Head(s) = "-" THEN -1 ELSE 1

DotAt(s) == {k \in 1..Len(s) : s[k] = "."}

\* int(cell): optional blanks, optional sign, one or more digits
py_int(cell) ==
    LET s == strip(cell)
        u == Unsigned(s)
    IN  IF u # <<>> /\ AllDigits(u)
        THEN [ok |-> TRUE, v |-> Sign(s) * DecVal(u)]
        ELSE [ok |-> FALSE, v |-> 0]

\* float(cell): optional blanks, optional sign, digits with at most one point
py_float(cell) ==
    LET s == strip(cell)
        u == Unsigned(s)
        dots == DotAt(u)
    IN  IF u # <<>> /\ AllDigits(u)
        THEN [ok |-> TRUE, v |-> Q(Sign(s) * DecVal(u))]
        ELSE IF Cardinality(dots) = 1 /\ Len(u) > 1
        THEN LET k == CHOOSE j \in dots : TRUE
                 ip == SubSeq(u, 1, k - 1)
                 fp == SubSeq(u, k + 1, Len(u))
             IN  IF AllDigits(ip) /\ AllDigits(fp)
                 THEN [ok |-> TRUE,
                       v |-> Rat(Sign(s) * (DecVal(ip) * Pow10(Len(fp)) + DecVal(fp)),
                                 Pow10(Len(fp)))]
                 ELSE [ok |-> FALSE, v |-> Q(0)]
        ELSE [ok |-> FALSE, v |-> Q(0)]

\* get_panel_thickness: the global thickness unless an override is given
get_panel_thickness(global_thickness, panel_thickness_override) ==
    IF panel_thickness_override = None \/ strip(panel_thickness_override) = <<>>
    THEN [ok |-> TRUE, v |-> global_thickness]
    ELSE py_float(panel_thickness_override)

(***************************************************************************)
(* Solids: a cadquery Workplane holding one box or one cylinder, with its   *)
(* centre and the solids that were subtracted from it.                      *)
(***************************************************************************)
Origin == <<Q(0), Q(0), Q(0)>>

box(length, width, height) ==
    [kind |-> "box", size |-> <<length, width, height>>, pos |-> Origin, cuts |-> <<>>]

cylinder(height, radius) ==
    [kind |-> "cylinder", size |-> <<height, radius>>, pos |-> Origin, cuts |-> <<>>]

translate(s, vec) ==
    [kind |-> s.kind, size |-> s.size, pos |-> VAdd(s.pos, vec),
     cuts |-> [k \in DOMAIN s.cuts |-> [s.cuts[k] EXCEPT !.pos = VAdd(s.cuts[k].pos, vec)]]]

\* s.cut(tool): the boolean difference, recorded as the tool removed
cut(s, tool) == [s EXCEPT !.cuts = Append(s.cuts, tool)]

RECURSIVE cut_all(_, _)
cut_all(s, tools) ==
    IF tools = <<>> THEN s ELSE cut_all(cut(s, Head(tools)), Tail(tools))

FrontType_NONE == 0

FrontType_DOOR == -1

FrontType_DOUBLE_DOORS == -2

ConnectorType_SIDES_WIN == 0

ConnectorType_TOP_BOTTOM_WIN == 1

ConnectorType_MITERED == 2

hinge_diameter == 35

hinge_length == 13

foot_diameter == 50

foot_height == 100

distance_hole_edge_of_front == 5

(***************************************************************************)
(* create_hinges                                                           *)
(***************************************************************************)
\* a variant of num_hinges whose thresholds exclude the bound (< for <=)
num_hinges_exclusive(door_height) ==
    IF Lt(door_height, Q(600)) THEN 2
    ELSE IF Lt(door_height, Q(900)) THEN 3
    ELSE IF Lt(door_height, Q(2000)) THEN 4
    ELSE IF Lt(door_height, Q(2400)) THEN 5
    ELSE IF Lt(door_height, Q(3000)) THEN 6
    ELSE 0

\* the number of hinges of a door, 0 standing for the ValueError
num_hinges(door_height) ==
    IF Leq(door_height, Q(600)) THEN 2
    ELSE IF Leq(door_height, Q(900)) THEN 3
    ELSE IF Leq(door_height, Q(2000)) THEN 4
    ELSE IF Leq(door_height, Q(2400)) THEN 5
    ELSE IF Leq(door_height, Q(3000)) THEN 6
    ELSE 0

create_hinges(door_height, diameter, length) ==
    LET n == num_hinges(door_height)
        spacing == Div(Sub(door_height, Q(2 * 90)), Q(n - 1))
    IN  IF n = 0
        THEN [ok |-> FALSE, err |-> "ValueError: Invalid door height for hinge calculation",
              hinges |-> <<>>]
        ELSE [ok |-> TRUE, err |-> "",
              hinges |-> [i \in 1..n |->
                  translate(cylinder(Q(length), Half(Q(diameter))),
                            <<Q(0), Add(Q(90), Mul(Q(i - 1), spacing)), Q(0)>>)]]

(***************************************************************************)
(* create_feet                                                             *)
(***************************************************************************)
foot(diameter, height, x, z) ==
    translate(cylinder(Q(height), Half(Q(diameter))), <<x, Q(0), z>>)

num_extra_feet(width) == IF Lt(Q(600), width) THEN FloorDiv(width, Q(600)) ELSE 0

create_feet(width, depth, diameter, height) ==
    LET front_z == Add(Neg(Half(depth)), Q(150))
        back_z == Sub(Half(depth), Q(100))
        left_x == Add(Neg(Half(width)), Q(50))
        right_x == Sub(Half(width), Q(50))
        n == num_extra_feet(width)
        spacing == Div(width, Q(n + 1))
        extra_x(i) == Add(Neg(Half(width)), Mul(Q(i), spacing))
    IN  << foot(diameter, height, left_x, front_z), foot(diameter, height, right_x, front_z),
           foot(diameter, height, left_x, back_z), foot(diameter, height, right_x, back_z) >>
        \o [j \in 1..(2 * n) |->
              IF j % 2 = 1
              THEN foot(diameter, height, extra_x((j + 1) \div 2), front_z)
              ELSE foot(diameter, height, extra_x(j \div 2), back_z)]

(***************************************************************************)
(* create_cabinet                                                          *)
(***************************************************************************)
adjusted_depth(depth, front_type, front_thickness) ==
    IF front_type # FrontType_NONE THEN Sub(depth, front_thickness) ELSE depth

connector_known(connector_type) ==
    connector_type \in {ConnectorType_MITERED, ConnectorType_TOP_BOTTOM_WIN, ConnectorType_SIDES_WIN}

\* a variant of width_adjustment that insets the top and bottom whenever the joint
\* is not mitered
width_adjustment_unless_mitered(connector_type, left_thickness, right_thickness) ==
    IF connector_type = ConnectorType_MITERED THEN Q(0)
    ELSE Add(left_thickness, right_thickness)

width_adjustment(connector_type, left_thickness, right_thickness) ==
    IF connector_type = ConnectorType_MITERED THEN Q(0)
    ELSE IF connector_type = ConnectorType_TOP_BOTTOM_WIN THEN Q(0)
    ELSE Add(left_thickness, right_thickness)

height_adjustment(connector_type, top_thickness, bottom_thickness) ==
    IF connector_type = ConnectorType_MITERED THEN Q(0)
    ELSE IF connector_type = ConnectorType_TOP_BOTTOM_WIN THEN Add(top_thickness, bottom_thickness)
    ELSE Q(0)

create_panels(width, height, adj_depth, wadj, hadj, top_t, bottom_t, left_t, right_t, back_t) ==
    LET inner_h == Sub(Sub(height, top_t), bottom_t)
    IN  [top |-> translate(box(Sub(width, wadj), top_t, adj_depth),
                           <<Q(0), Sub(height, Half(top_t)), Q(0)>>),
         bottom |-> translate(box(Sub(width, wadj), bottom_t, adj_depth),
                              <<Q(0), Half(bottom_t), Q(0)>>),
         left_side |-> translate(box(left_t, Sub(height, hadj), adj_depth),
                                 <<Add(Neg(Half(width)), Half(left_t)), Half(height), Q(0)>>),
         right_side |-> translate(box(right_t, Sub(height, hadj), adj_depth),
                                  <<Sub(Half(width), Half(right_t)), Half(height), Q(0)>>),
         back |-> translate(box(Sub(Sub(width, left_t), right_t), inner_h, back_t),
                            <<Q(0), Add(Half(inner_h), bottom_t),
                              Add(Neg(Half(adj_depth)), Half(back_t))>>)]

\* the single door: the door solid with its voids, and the hinges recorded
single_door(width, height, adj_depth, front_thickness, hinge_parts) ==
    LET zeroX == Sub(Half(width), Half(Q(hinge_diameter)))
        positionX == Sub(zeroX, Q(distance_hole_edge_of_front))
        zeroZ == Add(Half(adj_depth), Half(Q(hinge_length)))
        door == translate(box(width, height, front_thickness),
                          <<Q(0), Half(height), Add(Half(adj_depth), Half(front_thickness))>>)
        voids == [i \in DOMAIN hinge_parts |-> translate(hinge_parts[i], <<positionX, Q(0), zeroZ>>)]
    IN  [fronts |-> <<cut_all(door, voids)>>,
         hinges |-> [i \in DOMAIN hinge_parts |->
                        translate(hinge_parts[i], <<positionX, Q(0), zeroZ>>)]]

\* the two doors: hinge_parts is <<>> without hardware
double_doors(width, height, adj_depth, front_thickness, hinge_parts) ==
    LET door_width == Half(width)
        zeroX == Sub(Half(door_width), Half(Q(hinge_diameter)))
        leftX == Add(Neg(zeroX), Q(distance_hole_edge_of_front))
        rightX == Sub(zeroX, Q(distance_hole_edge_of_front))
        zeroZ == Add(Half(adj_depth), Half(Q(hinge_length)))
        front_z == Add(Half(adj_depth), Half(front_thickness))
        left_door == translate(box(door_width, height, front_thickness),
                               <<Neg(Div(width, Q(4))), Half(height), front_z>>)
        right_door == translate(box(door_width, height, front_thickness),
                                <<Div(width, Q(4)), Half(height), front_z>>)
        left_voids == [i \in DOMAIN hinge_parts |-> translate(hinge_parts[i], <<leftX, Q(0), zeroZ>>)]
        right_voids == [i \in DOMAIN hinge_parts |-> translate(hinge_parts[i], <<rightX, Q(0), zeroZ>>)]
    IN  [fronts |-> <<cut_all(left_door, left_voids), cut_all(right_door, right_voids)>>,
         hinges |-> [i \in DOMAIN hinge_parts |->
                        translate(hinge_parts[i], <<Sub(leftX, door_width), Half(height), zeroZ>>)]
                    \o [i \in DOMAIN hinge_parts |->
                        translate(hinge_parts[i], <<Add(rightX, door_width), Half(height), zeroZ>>)]]

drawers(width, height, adj_depth, front_thickness, front_type) ==
    LET drawer_height == Div(height, Q(front_type))
    IN  [i \in 1..front_type |->
            translate(box(width, drawer_height, front_thickness),
                      <<Q(0), Add(Half(drawer_height), Mul(Q(i - 1), drawer_height)),
                        Add(Half(adj_depth), Half(front_thickness))>>)]

create_shelves(width, height, depth, adj_depth, top_t, bottom_t, left_t, right_t, back_t, front_t, shelf_t, shelf_amount) ==
    IF shelf_amount > 0
    THEN LET shelf_spacing == Div(Sub(Sub(height, top_t), bottom_t), Q(shelf_amount + 1))
             shelf_width == Sub(Sub(width, left_t), right_t)
             shelf_depth == IF IsZero(back_t) THEN adj_depth ELSE Sub(adj_depth, back_t)
         IN  [i \in 1..shelf_amount |->
                 translate(box(shelf_width, shelf_t, shelf_depth),
                           <<Add(Add(Neg(Half(width)), left_t), Half(shelf_width)),
                             Add(bottom_t, Mul(Q(i), shelf_spacing)),
                             Add(Add(Neg(Half(depth)), front_t), Half(shelf_depth))>>)]
    ELSE <<>>

NoCabinet(msg) ==
    [ok |-> FALSE, err |-> msg, panels |-> <<>>, fronts |-> <<>>, shelves |-> <<>>,
     hinges |-> <<>>, feet |-> <<>>]

create_cabinet(width, height, depth, front_type, global_thickness, top_thickness, bottom_thickness, left_thickness, right_thickness, back_thickness, front_thickness, shelf_thickness, shelf_amount, connector_type, corpus_color, front_color, add_hardware) ==
    LET adj == adjusted_depth(depth, front_type, front_thickness)
        wadj == width_adjustment(connector_type, left_thickness, right_thickness)
        hadj == height_adjustment(connector_type, top_thickness, bottom_thickness)
        is_door == front_type \in {FrontType_DOOR, FrontType_DOUBLE_DOORS}
        made == IF is_door /\ add_hardware # 0
                THEN create_hinges(height, hinge_diameter, hinge_length)
                ELSE [ok |-> TRUE, err |-> "", hinges |-> <<>>]
        fh == IF front_type = FrontType_DOOR
              THEN single_door(width, height, adj, front_thickness, made.hinges)
              ELSE IF front_type = FrontType_DOUBLE_DOORS
              THEN double_doors(width, height, adj, front_thickness, made.hinges)
              ELSE IF front_type > 0
              THEN [fronts |-> drawers(width, height, adj, front_thickness, front_type),
                    hinges |-> <<>>]
              ELSE [fronts |-> <<>>, hinges |-> <<>>]
    IN  IF ~connector_known(connector_type) THEN NoCabinet("ValueError: Invalid connector type")
        ELSE IF ~made.ok THEN NoCabinet(made.err)
        ELSE [ok |-> TRUE, err |-> "",
              panels |-> create_panels(width, height, adj, wadj, hadj, top_thickness,
                                       bottom_thickness, left_thickness, right_thickness,
                                       back_thickness),
              fronts |-> fh.fronts,
              shelves |-> create_shelves(width, height, depth, adj, top_thickness,
                                         bottom_thickness, left_thickness, right_thickness,
                                         back_thickness, front_thickness, shelf_thickness,
                                         shelf_amount),
              hinges |-> fh.hinges,
              feet |-> IF Lt(Q(0), bottom_thickness)
                       THEN create_feet(width, depth, foot_diameter, foot_height)
                       ELSE <<>>]

(***************************************************************************)
(* assign_colors                                                           *)
(***************************************************************************)
colors ==
    << <<Q(0), Q(0), Q(1)>>, <<Rat(3, 5), Rat(2, 5), Rat(1, 5)>>, <<Q(1), Q(0), Q(0)>>,
       <<Q(0), Q(1), Q(0)>>, <<Q(1), Q(1), Q(0)>>, <<Rat(1, 2), Q(0), Rat(1, 2)>>,
       <<Q(1), Rat(1, 2), Q(0)>>, <<Q(1), Rat(3, 4), Rat(4, 5)>>,
       <<Rat(1, 2), Rat(1, 2), Rat(1, 2)>>, <<Q(0), Q(0), Q(0)>> >>

gray == <<Rat(1, 2), Rat(1, 2), Rat(1, 2)>>

\* set(materials)
Range(seq) == {seq[k] : k \in DOMAIN seq}

\* a variant of assign_colors that numbers the labels by their rows (enumerate over
\* materials, not over the distinct labels)
assign_colors_by_row(materials, unique_materials) ==
    [material \in Range(materials) |->
        LET i == CHOOSE k \in DOMAIN materials :
                    /\ materials[k] = material
                    /\ \A j \in DOMAIN materials : materials[j] = material => j <= k
        IN  colors[((i - 1) % Len(colors)) + 1]]

\* the mapping built from one enumeration, unique_materials, of set(materials)
assign_colors(materials, unique_materials) ==
    [material \in Range(unique_materials) |->
        LET i == CHOOSE k \in DOMAIN unique_materials :
                    /\ unique_materials[k] = material
                    /\ \A j \in DOMAIN unique_materials :
                          unique_materials[j] = material => j <= k
        IN  colors[((i - 1) % Len(colors)) + 1]]

(***************************************************************************)
(* add_cabinet_to_assembly                                                 *)
(***************************************************************************)
\* a variant of Location that adds the whole width, not half of it
Location_full_width(position, width, depth) ==
    <<Add(position, width), Q(0), Neg(Half(depth))>>

Location(position, width, depth) == <<Add(position, Half(width)), Q(0), Neg(Half(depth))>>

\* part_name.capitalize() of the five panel keys, in the dictionary's order
PanelNames == <<"Top", "Bottom", "Left_side", "Right_side", "Back">>

PanelsInOrder(panels) ==
    <<panels.top, panels.bottom, panels.left_side, panels.right_side, panels.back>>

Children(label, objs, loc, color) ==
    [i \in DOMAIN objs |-> [name |-> <<label, i>>, obj |-> objs[i], loc |-> loc, color |-> color]]

add_cabinet_to_assembly(assembly, name, parts, corpus_color, front_color, position, width, depth) ==
    LET loc == Location(position, width, depth)
    IN  [assembly EXCEPT !.children =
            @ \o [i \in 1..5 |-> [name |-> <<PanelNames[i], 0>>, obj |-> PanelsInOrder(parts.panels)[i],
                                  loc |-> loc, color |-> corpus_color]]
              \o Children("Front", parts.fronts, loc, front_color)
              \o Children("Shelf", parts.shelves, loc, corpus_color)
              \o Children("Hinge", parts.hinges, loc, gray)
              \o Children("Foot", parts.feet, loc, gray)]

\* cq.Assembly(name=...)
Assembly(name) == [name |-> name, children |-> <<>>]

(***************************************************************************)
(* main: one row of the CSV file, parsed and turned into a cabinet          *)
(***************************************************************************)
\* int(cell) if cell.strip() != "" else default
int_or_default(cell, default) ==
    IF strip(cell) # <<>> THEN py_int(cell) ELSE [ok |-> TRUE, v |-> default]

\* lines 234-251: every conversion of one row; ok is FALSE when one raises
parse_row(data) ==
    LET add_hardware == py_int(data.hardware)
        width == py_float(data.width)
        height == py_float(data.height)
        depth == py_float(data.depth)
        global_thickness == py_float(data.global_thickness)
        shelf_amount == py_int(data.shelf_amount)
        front_type == int_or_default(data.front_type, FrontType_NONE)
        connector_type == int_or_default(data.connector_type, ConnectorType_SIDES_WIN)
        top == get_panel_thickness(global_thickness.v, data.override_top)
        bottom == get_panel_thickness(global_thickness.v, data.override_bottom)
        left == get_panel_thickness(global_thickness.v, data.override_left)
        right == get_panel_thickness(global_thickness.v, data.override_right)
        back == get_panel_thickness(global_thickness.v, data.override_back)
        front == get_panel_thickness(global_thickness.v, data.override_front)
        shelf == get_panel_thickness(global_thickness.v, data.override_shelf)
    IN  [ok |-> /\ add_hardware.ok /\ width.ok /\ height.ok /\ depth.ok
                /\ global_thickness.ok /\ shelf_amount.ok /\ front_type.ok
                /\ connector_type.ok /\ top.ok /\ bottom.ok /\ left.ok /\ right.ok
                /\ back.ok /\ front.ok /\ shelf.ok,
         add_hardware |-> add_hardware.v, width |-> width.v, height |-> height.v,
         depth |-> depth.v, global_thickness |-> global_thickness.v,
         shelf_amount |-> shelf_amount.v, front_type |-> front_type.v,
         connector_type |-> connector_type.v, top_thickness |-> top.v,
         bottom_thickness |-> bottom.v, left_thickness |-> left.v,
         right_thickness |-> right.v, back_thickness |-> back.v,
         front_thickness |-> front.v, shelf_thickness |-> shelf.v]

\* an exception leaves main: nothing after the loop runs
Propagate(assembly, position, msg) ==
    [pc |-> "raised", parent_assembly |-> assembly, current_x_position |-> position, err |-> msg]

\* lines 253-267: the row's conversions p in hand, the cabinet is built and placed
place_cabinet(p, data, assembly, position, corpus_map, front_map) ==
    LET corpus_color == corpus_map[data.corpus_material]
        front_color == front_map[data.front_material]
        parts == create_cabinet(p.width, p.height, p.depth, p.front_type, p.global_thickness,
                                p.top_thickness, p.bottom_thickness, p.left_thickness,
                                p.right_thickness, p.back_thickness, p.front_thickness,
                                p.shelf_thickness, p.shelf_amount, p.connector_type,
                                corpus_color, front_color, p.add_hardware)
    IN  IF ~p.ok THEN Propagate(assembly, position, "ValueError: could not convert string")
        ELSE IF data.corpus_material \notin DOMAIN corpus_map
                \/ data.front_material \notin DOMAIN front_map
        THEN Propagate(assembly, position, "KeyError")
        ELSE IF ~parts.ok THEN Propagate(assembly, position, parts.err)
        ELSE [pc |-> "loop",
              parent_assembly |->
                  Append(assembly,
                         add_cabinet_to_assembly(Assembly(data.name), data.name, parts,
                                                 corpus_color, front_color, position,
                                                 p.width, p.depth)),
              current_x_position |-> Add(position, p.width),
              err |-> ""]

\* a variant of loop_body that recovers per cabinet: a row that raises is skipped
loop_body_skipping_bad_rows(data, assembly, position, corpus_map, front_map) ==
    LET next == CHOOSE n \in {place_cabinet(p, data, assembly, position, corpus_map, front_map) :
                                 p \in {parse_row(data)}} : TRUE
    IN  IF next.pc = "raised"
        THEN [pc |-> "loop", parent_assembly |-> assembly, current_x_position |-> position,
              err |-> ""]
        ELSE next

\* lines 231-267: the body of the loop over data_rows; the row is converted once
\* (p) and the cabinet is built from the converted values
loop_body(data, assembly, position, corpus_map, front_map) ==
    CHOOSE next \in {place_cabinet(p, data, assembly, position, corpus_map, front_map) :
                        p \in {parse_row(data)}} : TRUE

(***************************************************************************)
(* The inputs: the rows a CSV file may hold, and the batches made of them  *)
(***************************************************************************)
MaxCabinets == 3

MaxLabels == 11

MaxPermuted == 4

MaxDoorHeight == 3100

MaxWidth == 1900

\* a single door with hardware, one shelf, a thinner back
RowDoor ==
    [name |-> <<"A">>, corpus_material |-> "oak", front_material |-> "white",
     hardware |-> <<"1">>, width |-> <<"5", "0", "0">>, height |-> <<"7", "2", "0">>,
     depth |-> <<"5", "6", "0">>, global_thickness |-> <<"1", "8">>,
     shelf_amount |-> <<"1">>, front_type |-> <<"-", "1">>, connector_type |-> <<"0">>,
     override_top |-> <<>>, override_bottom |-> <<>>, override_left |-> <<>>,
     override_right |-> <<>>, override_back |-> <<"6">>, override_front |-> <<>>,
     override_shelf |-> <<" ">>]

\* two doors with hardware, top and bottom win, no override columns
RowDoubleDoors ==
    [name |-> <<"B">>, corpus_material |-> "mdf", front_material |-> "white",
     hardware |-> <<"1">>, width |-> <<"7", "0", "0">>, height |-> <<"2", "0", "0", "1">>,
     depth |-> <<"5", "6", "0">>, global_thickness |-> <<"1", "8">>,
     shelf_amount |-> <<"2">>, front_type |-> <<"-", "2">>, connector_type |-> <<"1">>,
     override_top |-> <<"1", "2", ".", "5">>, override_bottom |-> None, override_left |-> None,
     override_right |-> None, override_back |-> None, override_front |-> None,
     override_shelf |-> None]

\* an open carcass: blank front and connector cells, no bottom panel, no feet
RowOpen ==
    [name |-> <<"C">>, corpus_material |-> "oak", front_material |-> "oak",
     hardware |-> <<"0">>, width |-> <<" ", "3", "0", "0">>, height |-> <<"9", "0", "0">>,
     depth |-> <<"4", "0", "0">>, global_thickness |-> <<"1", "8">>,
     shelf_amount |-> <<"0">>, front_type |-> <<>>, connector_type |-> <<" ">>,
     override_top |-> <<>>, override_bottom |-> <<"0">>, override_left |-> <<>>,
     override_right |-> <<>>, override_back |-> <<>>, override_front |-> <<>>,
     override_shelf |-> <<>>]

\* three drawers, mitered
RowDrawers ==
    [RowDoor EXCEPT !.name = <<"D">>, !.corpus_material = "ply", !.width = <<"6", "0", "1">>,
                    !.front_type = <<"3">>, !.connector_type = <<"2">>]

GoodRows == {RowDoor, RowDoubleDoors, RowOpen, RowDrawers}

\* rows on which a conversion or create_cabinet raises
RowBadWidth == [RowDoor EXCEPT !.width = <<"5", "0", "x">>]

RowBadOverride == [RowDoubleDoors EXCEPT !.override_top = <<"x">>]

RowBadConnector == [RowOpen EXCEPT !.connector_type = <<"3">>]

RowTallDoor == [RowDoor EXCEPT !.height = <<"3", "0", "0", "1">>]

BadRows == {RowBadWidth, RowBadOverride, RowBadConnector, RowTallDoor}

RowPool == GoodRows \cup BadRows

LabelPool ==
    <<"m01", "m02", "m03", "m04", "m05", "m06", "m07", "m08", "m09", "m10", "m11", "m12",
      "m13", "m14">>

\* a batch of n cabinets of n distinct corpus materials and three front materials
LongBatch(n) ==
    [k \in 1..n |-> [RowOpen EXCEPT !.corpus_material = LabelPool[k],
                                    !.front_material = LabelPool[(k % 3) + 1]]]

Batches ==
    UNION {[1..n -> RowPool] : n \in 0..MaxCabinets} \cup {LongBatch(MaxLabels)}

(***************************************************************************)
(* list(set(materials)): the order of a set's elements is not fixed.  Every *)
(* order of a set of up to MaxPermuted labels is taken; of a larger set,    *)
(* the rotations of one order and of its reverse.                           *)
(***************************************************************************)
RECURSIVE Perms(_)
Perms(S) ==
    IF S = {} THEN {<<>>}
    ELSE UNION {{<<x>> \o q : q \in Perms(S \ {x})} : x \in S}

RECURSIVE SetToSeq(_)
SetToSeq(S) ==
    IF S = {} THEN <<>>
    ELSE LET x == CHOOSE y \in S : TRUE IN <<x>> \o SetToSeq(S \ {x})

Reverse(q) == [k \in 1..Len(q) |-> q[Len(q) + 1 - k]]

Rotations(q) == {SubSeq(q, k, Len(q)) \o SubSeq(q, 1, k - 1) : k \in 1..Len(q)}

Enumerations(S) ==
    IF Cardinality(S) <= MaxPermuted THEN Perms(S)
    ELSE Rotations(SetToSeq(S)) \cup Rotations(Reverse(SetToSeq(S)))

(***************************************************************************)
(* State                                                                   *)
(***************************************************************************)
VARIABLES
    pc,                 \* where main is, or "call" / "returned" in SpecUnit
    data_rows,          \* the rows read_csv returned
    row,                \* the index of the row the loop is at
    unique_materials,   \* the enumerations assign_colors drew (corpus, front)
    corpus_color_map,
    front_color_map,
    parent_assembly,    \* the cabinet assemblies added so far
    current_x_position,
    error,              \* the exception that left main, "" if none
    step_file,          \* what parent_assembly.save wrote, <<>> before
    saved,
    shown,
    call,               \* SpecUnit: the function applied and its arguments
    ret                 \* SpecUnit: what it returned

vars ==
    <<pc, data_rows, row, unique_materials, corpus_color_map, front_color_map,
      parent_assembly, current_x_position, error, step_file, saved, shown, call, ret>>

mainVars ==
    <<data_rows, row, unique_materials, corpus_color_map, front_color_map,
      parent_assembly, current_x_position, error, step_file, saved, shown>>

NoCall == [fn |-> "none"]

Idle ==
    /\ data_rows = <<>>
    /\ row = 1
    /\ unique_materials = [corpus |-> <<>>, front |-> <<>>]
    /\ corpus_color_map = <<>>
    /\ front_color_map = <<>>
    /\ parent_assembly = <<>>
    /\ current_x_position = Q(0)
    /\ error = ""
    /\ step_file = <<>>
    /\ saved = FALSE
    /\ shown = FALSE

(***************************************************************************)
(* main                                                                    *)
(***************************************************************************)
Init ==
    /\ pc = "ask_file"
    /\ Idle
    /\ call = NoCall
    /\ ret = NoCall

\* lines 209-212: the dialog is cancelled
NoFileSelected ==
    /\ pc = "ask_file"
    /\ pc' = "exit"
    /\ UNCHANGED <<mainVars, call, ret>>

\* lines 214-218: read_csv raises and main returns
ReadCsvFails ==
    /\ pc = "ask_file"
    /\ pc' = "exit"
    /\ UNCHANGED <<mainVars, call, ret>>

\* lines 214-215: read_csv returns the rows of the file
ReadCsv ==
    /\ pc = "ask_file"
    /\ \E batch \in Batches : data_rows' = batch
    /\ pc' = "colors"
    /\ UNCHANGED <<row, unique_materials, corpus_color_map, front_color_map,
                   parent_assembly, current_x_position, error, step_file, saved, shown,
                   call, ret>>

corpus_materials(rows) == [k \in DOMAIN rows |-> rows[k].corpus_material]

front_materials(rows) == [k \in DOMAIN rows |-> rows[k].front_material]

\* lines 220-229
AssignColors ==
    /\ pc = "colors"
    /\ \E oc \in Enumerations(Range(corpus_materials(data_rows))),
          of \in Enumerations(Range(front_materials(data_rows))) :
          /\ unique_materials' = [corpus |-> oc, front |-> of]
          /\ corpus_color_map' = assign_colors(corpus_materials(data_rows), oc)
          /\ front_color_map' = assign_colors(front_materials(data_rows), of)
    /\ parent_assembly' = <<>>
    /\ current_x_position' = Q(0)
    /\ row' = 1
    /\ pc' = "loop"
    /\ UNCHANGED <<data_rows, error, step_file, saved, shown, call, ret>>

\* lines 231-267: one iteration of the loop
ProcessCabinet ==
    /\ pc = "loop"
    /\ row <= Len(data_rows)
    /\ LET next == loop_body(data_rows[row], parent_assembly, current_x_position,
                             corpus_color_map, front_color_map)
       IN  /\ pc' = next.pc
           /\ parent_assembly' = next.parent_assembly
           /\ current_x_position' = next.current_x_position
           /\ error' = next.err
           /\ row' = IF next.pc = "loop" THEN row + 1 ELSE row
    /\ UNCHANGED <<data_rows, unique_materials, corpus_color_map, front_color_map,
                   step_file, saved, shown, call, ret>>

\* lines 269-273
Save ==
    /\ pc = "loop"
    /\ row > Len(data_rows)
    /\ step_file' = parent_assembly
    /\ saved' = TRUE
    /\ pc' = "show"
    /\ UNCHANGED <<data_rows, row, unique_materials, corpus_color_map, front_color_map,
                   parent_assembly, current_x_position, error, shown, call, ret>>

\* lines 275-277
Show ==
    /\ pc = "show"
    /\ shown' = TRUE
    /\ pc' = "exit"
    /\ UNCHANGED <<data_rows, row, unique_materials, corpus_color_map, front_color_map,
                   parent_assembly, current_x_position, error, step_file, saved, call, ret>>

\* lines 278-279: cq_editor is not installed
ShowImportError ==
    /\ pc = "show"
    /\ pc' = "exit"
    /\ UNCHANGED <<mainVars, call, ret>>

Next ==
    \/ NoFileSelected
    \/ ReadCsvFails
    \/ ReadCsv
    \/ AssignColors
    \/ ProcessCabinet
    \/ Save
    \/ Show
    \/ ShowImportError

Spec == Init /\ [][Next]_vars

(***************************************************************************)
(* SpecUnit: create_hinges, create_feet and create_cabinet on their own    *)
(***************************************************************************)
\* door heights in steps of half a millimetre
HingeCalls ==
    [fn : {"create_hinges"}, door_height : {Rat(n, 2) : n \in 1..(2 * MaxDoorHeight)}]

FeetCalls ==
    [fn : {"create_feet"}, width : {Q(w) : w \in 1..MaxWidth}, depth : {Q(560)}]

Thicknesses == {Q(0), Q(12), Q(18)}

CabinetCalls ==
    [fn : {"create_cabinet"},
     width : {Q(400), Q(800)},
     height : {Q(720), Q(3001)},
     depth : {Q(560)},
     front_type : {FrontType_NONE, FrontType_DOOR, FrontType_DOUBLE_DOORS, -3, 2},
     global_thickness : {Q(18)},
     top_thickness : Thicknesses,
     bottom_thickness : Thicknesses,
     left_thickness : Thicknesses,
     right_thickness : Thicknesses,
     back_thickness : {Q(0), Q(6), Q(18)},
     front_thickness : {Q(12), Q(18)},
     shelf_thickness : {Q(18)},
     shelf_amount : {0, 2},
     connector_type : {ConnectorType_SIDES_WIN, ConnectorType_TOP_BOTTOM_WIN,
                       ConnectorType_MITERED, 3},
     add_hardware : {0, 1}]

InitUnit ==
    /\ pc = "call"
    /\ Idle
    /\ call \in HingeCalls \cup FeetCalls \cup CabinetCalls
    /\ ret = NoCall

ReturnCreateHinges ==
    /\ pc = "call"
    /\ call.fn = "create_hinges"
    /\ ret' = create_hinges(call.door_height, hinge_diameter, hinge_length)
    /\ pc' = "returned"
    /\ UNCHANGED <<mainVars, call>>

ReturnCreateFeet ==
    /\ pc = "call"
    /\ call.fn = "create_feet"
    /\ ret' = create_feet(call.width, call.depth, foot_diameter, foot_height)
    /\ pc' = "returned"
    /\ UNCHANGED <<mainVars, call>>

ReturnCreateCabinet ==
    /\ pc = "call"
    /\ call.fn = "create_cabinet"
    /\ ret' = create_cabinet(call.width, call.height, call.depth, call.front_type,
                             call.global_thickness, call.top_thickness,
                             call.bottom_thickness, call.left_thickness,
                             call.right_thickness, call.back_thickness,
                             call.front_thickness, call.shelf_thickness, call.shelf_amount,
                             call.connector_type, colors[1], colors[2], call.add_hardware)
    /\ pc' = "returned"
    /\ UNCHANGED <<mainVars, call>>

NextUnit ==
    \/ ReturnCreateHinges
    \/ ReturnCreateFeet
    \/ ReturnCreateCabinet

SpecUnit == InitUnit /\ [][NextUnit]_vars

(***************************************************************************)
(* Properties                                                              *)
(***************************************************************************)
\* the lower and upper face of a box along axis 1 (x), 2 (y) or 3 (z)
Lo(s, axis) == Sub(s.pos[axis], Half(s.size[axis]))

Hi(s, axis) == Add(s.pos[axis], Half(s.size[axis]))

WidthOfRow(k) == py_float(data_rows[k].width).v

DepthOfRow(k) == py_float(data_rows[k].depth).v

RECURSIVE SumOfWidths(_)
SumOfWidths(k) == IF k = 0 THEN Q(0) ELSE Add(SumOfWidths(k - 1), WidthOfRow(k))

Returned(fn) == pc = "returned" /\ call.fn = fn

\* the front-type codes the input contract names: 0, -1, -2, or a drawer count
RecognisedFrontType(code) == code \in {0, -1, -2} \/ code > 0

\* create_cabinet returned a cabinet for a recognised front type
MadeCabinet == Returned("create_cabinet") /\ ret.ok /\ RecognisedFrontType(call.front_type)

\* C1: the k-th cabinet's parts all lie under the one translation
\* (runningX_k + width_k / 2, 0, -depth_k / 2), runningX_k being the sum of the widths
\* of the cabinets before it; the running offset is the sum of the widths placed so
\* far, and each cabinet's right edge is the next cabinet's left edge.
C1_LayoutIsPrefixSum ==
    /\ \A k \in 1..Len(parent_assembly) :
          \A c \in DOMAIN parent_assembly[k].children :
              parent_assembly[k].children[c].loc =
                  <<Add(SumOfWidths(k - 1), Half(WidthOfRow(k))), Q(0), Neg(Half(DepthOfRow(k)))>>
    /\ current_x_position = SumOfWidths(Len(parent_assembly))
    /\ \A k \in 1..(Len(parent_assembly) - 1) :
          Add(parent_assembly[k].children[1].loc[1], Half(WidthOfRow(k)))
              = Sub(parent_assembly[k + 1].children[1].loc[1], Half(WidthOfRow(k + 1)))

\* C1 witness: widths 500, 700, 300 are placed at the centres 250, 850, 1350
C1_Witness ==
    /\ Len(parent_assembly) = 3
    /\ <<WidthOfRow(1), WidthOfRow(2), WidthOfRow(3)>> = <<Q(500), Q(700), Q(300)>>
    /\ parent_assembly[1].children[1].loc[1] = Q(250)
    /\ parent_assembly[2].children[1].loc[1] = Q(850)
    /\ parent_assembly[3].children[1].loc[1] = Q(1350)
    /\ current_x_position = Q(1500)

\* the number of hinges the step function of the door height h gives, 0 for none
HingesExpected(h) ==
    IF Leq(h, Q(600)) THEN 2
    ELSE IF Lt(Q(600), h) /\ Leq(h, Q(900)) THEN 3
    ELSE IF Lt(Q(900), h) /\ Leq(h, Q(2000)) THEN 4
    ELSE IF Lt(Q(2000), h) /\ Leq(h, Q(2400)) THEN 5
    ELSE IF Lt(Q(2400), h) /\ Leq(h, Q(3000)) THEN 6
    ELSE 0

\* C2: create_hinges returns 2, 3, 4, 5, 6 hinges for a door height up to 600, 900,
\* 2000, 2400, 3000 (bounds included), and fails for every height above 3000.
C2_HingeCountIsStepFunction ==
    Returned("create_hinges") =>
        LET h == call.door_height
        IN  /\ ret.ok <=> Leq(h, Q(3000))
            /\ ~ret.ok => ret.hinges = <<>> /\ ret.err # ""
            /\ Len(ret.hinges) = HingesExpected(h)
            /\ h = Q(600) => Len(ret.hinges) = 2
            /\ h = Q(601) => Len(ret.hinges) = 3
            /\ h = Q(900) => Len(ret.hinges) = 3
            /\ h = Q(901) => Len(ret.hinges) = 4
            /\ h = Q(2000) => Len(ret.hinges) = 4
            /\ h = Q(2001) => Len(ret.hinges) = 5
            /\ h = Q(2400) => Len(ret.hinges) = 5
            /\ h = Q(2401) => Len(ret.hinges) = 6
            /\ h = Q(3000) => Len(ret.hinges) = 6
            /\ h = Q(3001) => ~ret.ok

\* C2 witness: a door of 3001 mm was refused
C2_Witness ==
    /\ Returned("create_hinges")
    /\ call.door_height = Q(3001)
    /\ ~ret.ok
    /\ ret.hinges = <<>>

\* C3: create_feet returns 4 feet for a width up to 600 and one more pair only when
\* the width exceeds a further multiple of 600: 500 -> 4, 600 -> 4, 601 -> 6,
\* 1200 -> 6, 1201 -> 8.
C3_FeetGrowPastMultiplesOf600 ==
    Returned("create_feet") =>
        LET w == call.width[1]
        IN  Len(ret) = 4 + 2 * ((w - 1) \div 600)

\* C4: a front-type code that is not 0, -1, -2 or a positive drawer count makes
\* create_cabinet fail; it never returns a cabinet for such a code.
C4_UnknownFrontTypeFails ==
    Returned("create_cabinet") =>
        (~RecognisedFrontType(call.front_type) => ~ret.ok)

\* the rows the batch cannot get past: a numeric cell or an override that does not
\* parse, a connector code outside 0, 1, 2, a door above 3000 mm with hardware
FatalRow(data) ==
    LET p == parse_row(data)
    IN  \/ ~p.ok
        \/ p.connector_type \notin {0, 1, 2}
        \/ /\ p.front_type \in {-1, -2}
           /\ p.add_hardware # 0
           /\ Lt(Q(3000), p.height)

\* C5: a fatal error on cabinet k aborts the run: the scene is never saved and never
\* shown, cabinets 1..k-1 stay in the parent assembly, and cabinet k+1 is never
\* processed.
C5_FatalErrorAbortsBatch ==
    /\ \A k \in 1..Len(data_rows) :
          FatalRow(data_rows[k]) =>
              /\ ~saved
              /\ ~shown
              /\ step_file = <<>>
              /\ pc \notin {"show", "exit"}
              /\ row <= k
              /\ Len(parent_assembly) < k
    /\ pc = "raised" =>
          /\ FatalRow(data_rows[row])
          /\ error # ""
          /\ Len(parent_assembly) = row - 1

\* C5 witness: the third cabinet raised after two cabinets were added
C5_Witness ==
    /\ pc = "raised"
    /\ row = 3
    /\ Len(parent_assembly) = 2
    /\ Len(data_rows) = 3
    /\ ~saved

\* the voids carved into the fronts, front after front
VoidsOf(fronts) ==
    IF Len(fronts) = 0 THEN <<>>
    ELSE IF Len(fronts) = 1 THEN fronts[1].cuts
    ELSE fronts[1].cuts \o fronts[2].cuts

\* C6: with hardware, every hinge recorded for a door (single, or a leaf of a double
\* door) has the position of the cylinder subtracted from the door for it, and as
\* many hinges are recorded as voids are carved.
C6_HingesSitInTheirVoids ==
    Returned("create_cabinet") /\ ret.ok /\ call.add_hardware # 0
        /\ call.front_type \in {FrontType_DOOR, FrontType_DOUBLE_DOORS} =>
            LET voids == VoidsOf(ret.fronts)
            IN  /\ Len(ret.hinges) = Len(voids)
                /\ \A i \in DOMAIN ret.hinges :
                      i \in DOMAIN voids /\ ret.hinges[i].pos = voids[i].pos

\* the adjustments as the returned panels show them
WidthAdjustmentOf(r) == Sub(call.width, r.panels.top.size[1])

HeightAdjustmentOf(r) == Sub(call.height, r.panels.left_side.size[2])

\* C7 as claimed: mitered, both adjustments are zero; top/bottom win or sides win,
\* exactly one of the two is non-zero, zero thicknesses included.
C7_ExactlyOneAdjustment ==
    MadeCabinet =>
        LET w == WidthAdjustmentOf(ret)
            h == HeightAdjustmentOf(ret)
        IN  IF call.connector_type = ConnectorType_MITERED
            THEN IsZero(w) /\ IsZero(h)
            ELSE IsZero(w) # IsZero(h)

\* C7 amended: mitered, both adjustments are zero; top/bottom win, the width
\* adjustment is zero and the height adjustment is top + bottom; sides win, the
\* height adjustment is zero and the width adjustment is left + right.  So never
\* both are non-zero, and exactly one is non-zero unless the two thicknesses of the
\* pair that wins are both zero.
C7_AtMostOneAdjustment ==
    Returned("create_cabinet") /\ ret.ok =>
        LET w == WidthAdjustmentOf(ret)
            h == HeightAdjustmentOf(ret)
            tb == Add(call.top_thickness, call.bottom_thickness)
            lr == Add(call.left_thickness, call.right_thickness)
        IN  /\ WidthAdjustmentOf(ret) = Sub(call.width, ret.panels.bottom.size[1])
            /\ HeightAdjustmentOf(ret) = Sub(call.height, ret.panels.right_side.size[2])
            /\ call.connector_type = ConnectorType_MITERED => IsZero(w) /\ IsZero(h)
            /\ call.connector_type = ConnectorType_TOP_BOTTOM_WIN =>
                  /\ IsZero(w)
                  /\ h = tb
                  /\ (IsZero(w) # IsZero(h)) <=> ~IsZero(tb)
            /\ call.connector_type = ConnectorType_SIDES_WIN =>
                  /\ IsZero(h)
                  /\ w = lr
                  /\ (IsZero(w) # IsZero(h)) <=> ~IsZero(lr)
            /\ IsZero(w) \/ IsZero(h)

\* C7 witness: top/bottom win with a top and a bottom of zero thickness, and neither
\* adjustment is non-zero
C7_Witness ==
    /\ MadeCabinet
    /\ call.connector_type = ConnectorType_TOP_BOTTOM_WIN
    /\ IsZero(call.top_thickness)
    /\ IsZero(call.bottom_thickness)
    /\ ~IsZero(call.left_thickness)
    /\ IsZero(WidthAdjustmentOf(ret))
    /\ IsZero(HeightAdjustmentOf(ret))

\* what C8 says of one colour map, built from the labels materials through the
\* enumeration order
ColorMapIsCyclic(map, order, materials) ==
    LET labels == Range(materials)
    IN  /\ DOMAIN map = labels
        /\ Range(order) = labels
        /\ Len(order) = Cardinality(labels)
        /\ \A i \in DOMAIN order : map[order[i]] = colors[((i - 1) % 10) + 1]
        /\ \A i, j \in DOMAIN order :
              map[order[i]] = map[order[j]] => (i - j) % 10 = 0
        /\ Cardinality(labels) <= 10 =>
              \A a, b \in labels : map[a] = map[b] => a = b

C9_ShelvesFlushInDepth ==
    MadeCabinet /\ call.shelf_amount > 0 =>
        \A i \in DOMAIN ret.shelves :
            /\ Len(ret.shelves) = call.shelf_amount
            /\ Lo(ret.shelves[i], 3) = Hi(ret.panels.back, 3)
            /\ Hi(ret.shelves[i], 3) = Hi(ret.panels.top, 3)

\* C10: the inset pair never overlaps the winning pair: top/bottom win, the sides
\* run vertically from bottom_thickness to height - top_thickness; sides win, the
\* top and bottom run horizontally from -width/2 + left_thickness to
\* width/2 - right_thickness.
C10_InsetPairMeetsWinningPair ==
    MadeCabinet =>
        /\ call.connector_type = ConnectorType_TOP_BOTTOM_WIN =>
              \A side \in {ret.panels.left_side, ret.panels.right_side} :
                  /\ Lo(side, 2) = call.bottom_thickness
                  /\ Hi(side, 2) = Sub(call.height, call.top_thickness)
        /\ call.connector_type = ConnectorType_SIDES_WIN =>
              \A panel \in {ret.panels.top, ret.panels.bottom} :
                  /\ Lo(panel, 1) = Add(Neg(Half(call.width)), call.left_thickness)
                  /\ Hi(panel, 1) = Sub(Half(call.width), call.right_thickness)

====
